---- MODULE Spec2Model ----
(***************************************************************************)
(* vlist-vue: the Vue composable useVList and the helper useVListEvent.    *)
(*                                                                         *)
(* The model follows src/src/index.ts.  One host component calls useVList  *)
(* once and useVListEvent a few times during setup; the host then renders, *)
(* fires the mount signal, and later the unmount signal.  The engine       *)
(* (@floor/vlist) is a recorder: it keeps what it was built with and every *)
(* call made on its instances.                                             *)
(***************************************************************************)
EXTENDS Naturals, Sequences, FiniteSets, TLC

(***************************************************************************)
(* Bounds of the model.                                                    *)
(***************************************************************************)
MaxUnmounts == 2
MaxItemChanges == 2
MaxEventCalls == 1
MaxRefChanges == 1
MaxFieldChanges == 1

(***************************************************************************)
(* JavaScript values.  A value is a record tagged with its type; an object *)
(* whose fields the code reads carries them (v) as a function from the     *)
(* keys that are present, an opaque object carries an identity (ref).      *)
(***************************************************************************)
Undefined == [t |-> "undefined"]
Null == [t |-> "null"]
Str(s) == [t |-> "string", v |-> s]
Bool(b) == [t |-> "boolean", v |-> b]
Obj(id) == [t |-> "object", ref |-> id]
Fn(id) == [t |-> "function", v |-> id]
Arr(s) == [t |-> "array", v |-> s]

Restrict(f, K) == [k \in K |-> f[k]]

\* ToBoolean: undefined, null, false and "" are falsy; every object and
\* every array (the empty one too) is truthy.
Truthy(x) ==
    CASE x.t = "undefined" -> FALSE
      [] x.t = "null" -> FALSE
      [] x.t = "boolean" -> x.v
      [] x.t = "string" -> x.v # ""
      [] OTHER -> TRUE

\* a || b
Or(a, b) == IF Truthy(a) THEN a ELSE b

\* typeof x
TypeOf(x) ==
    CASE x.t \in {"null", "array", "object"} -> "object"
      [] OTHER -> x.t

\* o.k on an object
Field(o, k) == IF k \in DOMAIN o.v THEN o.v[k] ELSE Undefined

\* o?.k
OptField(o, k) == IF o.t \in {"undefined", "null"} THEN Undefined ELSE Field(o, k)

Window == Obj("window")
Div == Obj("div")
EmptyObject == Obj("{}")

Num(n) == [t |-> "number", v |-> n]

\* An object literal: the keys of f whose value is not undefined.
MkObj(f) == [t |-> "object", v |-> Restrict(f, {k \in DOMAIN f : f[k] # Undefined})]

(***************************************************************************)
(* Configurations (UseVListConfig: VListConfig without container).  A      *)
(* configuration is a record of all the fields the adapter reads; a field  *)
(* that is not given is undefined.                                         *)
(***************************************************************************)
ScrollbarSettings(obj) == {Undefined, Str("none"), Str("native"), Obj(obj)}

ScrollValues ==
    {Undefined} \cup
    {MkObj([element |-> e, scrollbar |-> s]) :
        e \in {Undefined, Window, Div}, s \in ScrollbarSettings("scroll.scrollbar")}

SelectionValues ==
    {Undefined} \cup
    {MkObj([mode |-> m, initial |-> i]) :
        m \in {Undefined, Str("none"), Str("single"), Str("multiple")},
        i \in {Undefined, Obj("initial")}}

GroupsValues ==
    {Undefined} \cup
    {MkObj([getGroupForIndex |-> Fn("getGroupForIndex"),
            headerTemplate |-> Fn("headerTemplate"),
            headerHeight |-> h,
            sticky |-> s]) :
        h \in {Num("32"), Fn("headerHeight")},
        s \in {Undefined, Bool(TRUE), Bool(FALSE)}}

ItemsValues == {Undefined, Arr(<<>>), Arr(<<"a">>)}

\* Collections that are defined and not empty.
NonEmptyItems == {Arr(<<"a">>), Arr(<<"a", "b">>)}

DefaultConfig ==
    [item |-> Obj("item"), items |-> Arr(<<"a">>), scroll |-> Undefined,
     scrollbar |-> Undefined, adapter |-> Undefined, loading |-> Undefined,
     layout |-> Undefined, grid |-> Undefined, groups |-> Undefined,
     selection |-> Undefined]

\* Every combination of the fields that decide the extensions.
ConfigSpace ==
    {[DefaultConfig EXCEPT !.scroll = sc, !.scrollbar = sb, !.adapter = ad,
                           !.loading = lo, !.layout = la, !.grid = gr,
                           !.groups = gp, !.selection = se] :
        sc \in ScrollValues, sb \in ScrollbarSettings("scrollbar"),
        ad \in {Undefined, Obj("adapter")}, lo \in {Undefined, Obj("loading")},
        la \in {Undefined, Str("list"), Str("grid")},
        gr \in {Undefined, Obj("grid")},
        gp \in GroupsValues, se \in SelectionValues}

\* The configurations of the lifecycle runs: the items vary, the rest is
\* the default.
LifecycleConfigs == {[DefaultConfig EXCEPT !.items = it] : it \in {Undefined, Arr(<<"a">>)}}

(***************************************************************************)
(* The engine's builder: vlist(config) seeds it, use(ext) appends an       *)
(* extension, build() makes the instance.  An extension is recorded by the *)
(* name of its constructor and the arguments it was constructed with.      *)
(***************************************************************************)
Ext(name, args) == [ext |-> name, args |-> args]

\* vlist({...config, container})
Seed(config, container) ==
    [k \in DOMAIN config \cup {"container"} |->
        IF k = "container" THEN container ELSE config[k]]

\* The page extension used for any scroll element.
UsePageAnyElement(config) ==
    IF Truthy(OptField(config.scroll, "element"))
    THEN <<Ext("withPage", <<>>)>>
    ELSE <<>>

\* if (config.scroll?.element === window) use(withPage())
UsePage(config) ==
    IF OptField(config.scroll, "element") = Window
    THEN <<Ext("withPage", <<>>)>>
    ELSE <<>>

\* The options without the loading entry.
AsyncOptionsWithoutLoading(config) == MkObj([adapter |-> config.adapter])

\* { adapter: config.adapter, ...(config.loading && { loading: config.loading }) }
AsyncOptions(config) ==
    IF Truthy(config.loading)
    THEN MkObj([adapter |-> config.adapter, loading |-> config.loading])
    ELSE MkObj([adapter |-> config.adapter])

\* if (config.adapter) use(withAsync({...}))
UseAsync(config) ==
    IF Truthy(config.adapter)
    THEN <<Ext("withAsync", <<AsyncOptions(config)>>)>>
    ELSE <<>>

\* The grid extension used whatever the layout.
UseGridAnyLayout(config) ==
    IF Truthy(config.grid)
    THEN <<Ext("withGrid", <<config.grid>>)>>
    ELSE <<>>

\* if (config.layout === "grid" && config.grid) use(withGrid(config.grid))
UseGrid(config) ==
    IF config.layout = Str("grid") /\ Truthy(config.grid)
    THEN <<Ext("withGrid", <<config.grid>>)>>
    ELSE <<>>

\* The two sources of the adapter differ in the grouping step only.
SourceVariants == {"index.ts", "part_002"}

\* A call of a function the user supplied, and what it returns.
Call(f, args) == [fn |-> f, args |-> args]
Result(f, args) == [t |-> "number", of |-> f.v, args |-> args]

\* part_002: typeof groupsConfig.headerHeight === "function"
\*             ? groupsConfig.headerHeight("", 0) : groupsConfig.headerHeight
HeaderHeight(groupsConfig) ==
    IF TypeOf(Field(groupsConfig, "headerHeight")) = "function"
    THEN Result(Field(groupsConfig, "headerHeight"), <<Str(""), Num("0")>>)
    ELSE Field(groupsConfig, "headerHeight")

\* part_002: { getGroupForIndex, headerHeight, headerTemplate,
\*             ...(groupsConfig.sticky !== undefined && { sticky }) }
SectionsOptions(groupsConfig) ==
    MkObj([getGroupForIndex |-> Field(groupsConfig, "getGroupForIndex"),
           headerHeight |-> HeaderHeight(groupsConfig),
           headerTemplate |-> Field(groupsConfig, "headerTemplate"),
           sticky |-> Field(groupsConfig, "sticky")])

\* if (config.groups) use(withSections(...)): index.ts hands config.groups
\* over as it is, part_002 hands over the options it assembles.
UseSections(variant, config) ==
    IF ~Truthy(config.groups) THEN <<>>
    ELSE IF variant = "index.ts"
         THEN <<Ext("withSections", <<config.groups>>)>>
         ELSE <<Ext("withSections", <<SectionsOptions(config.groups)>>)>>

\* The calls of user functions the grouping step makes.
SectionsCalls(variant, config) ==
    IF Truthy(config.groups) /\ variant = "part_002"
       /\ TypeOf(Field(config.groups, "headerHeight")) = "function"
    THEN <<Call(Field(config.groups, "headerHeight"), <<Str(""), Num("0")>>)>>
    ELSE <<>>

\* const selectionMode = config.selection?.mode || "none"
SelectionMode(config) == Or(OptField(config.selection, "mode"), Str("none"))

\* The configured selection forwarded whenever there is one.
UseSelectionForwarded(config) ==
    IF Truthy(config.selection)
    THEN <<Ext("withSelection", <<config.selection>>)>>
    ELSE <<Ext("withSelection", <<MkObj([mode |-> Str("none")])>>)>>

\* if (selectionMode !== "none") use(withSelection(config.selection))
\* else use(withSelection({ mode: "none" }))
UseSelection(config) ==
    IF SelectionMode(config) # Str("none")
    THEN <<Ext("withSelection", <<config.selection>>)>>
    ELSE <<Ext("withSelection", <<MkObj([mode |-> Str("none")])>>)>>

\* use(withScale())
UseScale(config) == <<Ext("withScale", <<>>)>>

\* The top-level option consulted first.
ScrollbarConfigTopFirst(config) == Or(config.scrollbar, OptField(config.scroll, "scrollbar"))

\* const scrollbarConfig = config.scroll?.scrollbar || config.scrollbar
ScrollbarConfig(config) == Or(OptField(config.scroll, "scrollbar"), config.scrollbar)

\* typeof scrollbarConfig === "object" ? scrollbarConfig : {}
ScrollbarOptions(scrollbarConfig) ==
    IF TypeOf(scrollbarConfig) = "object" THEN scrollbarConfig ELSE EmptyObject

\* if (scrollbarConfig !== "none") use(withScrollbar(scrollbarOptions))
UseScrollbar(config) ==
    IF ScrollbarConfig(config) # Str("none")
    THEN <<Ext("withScrollbar", <<ScrollbarOptions(ScrollbarConfig(config))>>)>>
    ELSE <<>>

\* use(withSnapshots())
UseSnapshots(config) == <<Ext("withSnapshots", <<>>)>>

\* The scale extension applied before the selection extension.
ExtensionsScaleFirst(variant, config) ==
    UsePage(config) \o UseAsync(config) \o UseGrid(config)
    \o UseSections(variant, config) \o UseScale(config)
    \o UseSelection(config) \o UseScrollbar(config) \o UseSnapshots(config)

\* The extensions the mount handler applies to the builder, in the order
\* of its statements.
Extensions(variant, config) ==
    UsePage(config) \o UseAsync(config) \o UseGrid(config)
    \o UseSections(variant, config) \o UseSelection(config)
    \o UseScale(config) \o UseScrollbar(config) \o UseSnapshots(config)

(***************************************************************************)
(* State.                                                                  *)
(***************************************************************************)
VARIABLES
    variant,        \* which source of the adapter runs
    configInput,    \* useVList's argument: [isRef, value]
    containerRef,   \* containerRef.value
    instance,       \* instance.value, the published instance
    phase,          \* the host component: setup, rendered, mounted, unmounted
    unmounts,       \* unmount signals delivered
    built,          \* engine: what each build() was made from
    userCalls,      \* calls of user functions made while building
    destroyCalls,   \* engine: the instances destroy() was invoked on
    setItemsCalls,  \* engine: the setItems(items) calls, with their instance
    subs,           \* engine: the on(event, handler) registrations
    thrown,         \* the errors that left the adapter's handlers: [handler, error]
    itemsWatch,     \* the watcher of configInput.value.items
    helpers,        \* the useVListEvent calls and their watchers
    extRef,         \* an instance reference the component does not own
    itemChanges,    \* replacements of the items field so far
    refChanges      \* changes of extRef so far

vars ==
    <<variant, configInput, containerRef, instance, phase, unmounts, built,
      userCalls, destroyCalls, setItemsCalls, subs, thrown, itemsWatch,
      helpers, extRef, itemChanges, refChanges>>

engineVars == <<built, userCalls, destroyCalls, setItemsCalls, subs>>

\* The event name of the h-th useVListEvent call of the component.
EventOf(h) == IF h = 1 THEN "scroll" ELSE "selection:change"
ExtInstances == {Obj("ext1"), Obj("ext2")}
Refs == {"instance", "extRef"}

\* The value of an instance reference handed to useVListEvent.
RefValue(ref) == IF ref = "instance" THEN instance ELSE extRef

\* The container check left out.
HasContainerUnchecked(container) == TRUE

\* const container = containerRef.value; if (!container) return
HasContainer(container) == Truthy(container)

\* const config = unref(configInput)
Unref(input) == input.value

\* builder.build(): the n-th instance the engine makes for this adapter.
BuiltInstance(n) == Obj(IF n = 1 THEN "vlist1" ELSE "vlist2")

\* What the engine records of a build.
Build(v, config, container, n) ==
    [inst |-> BuiltInstance(n), seed |-> Seed(config, container),
     exts |-> Extensions(v, config)]

\* A watcher of Vue: whether its source is stopped, whether its job is
\* queued, and the value its getter returned last.
Watcher(old) == [active |-> TRUE, pending |-> FALSE, old |-> old]

\* The scheduler queues the job of an active watcher whose source changed.
Trigger(w) == IF w.active THEN [w EXCEPT !.pending = TRUE] ELSE w

\* scope.stop() at unmount: the watcher never runs again.
Stop(w) == [w EXCEPT !.active = FALSE, !.pending = FALSE]

\* The job ran: the value seen becomes the old value.
Ran(w, new) == [w EXCEPT !.pending = FALSE, !.old = new]

TriggerRef(hs, ref) ==
    [i \in DOMAIN hs |-> IF hs[i].ref = ref THEN [hs[i] EXCEPT !.w = Trigger(hs[i].w)] ELSE hs[i]]

(***************************************************************************)
(* Initial state: useVList(configInput) has returned, setup is running.    *)
(***************************************************************************)
\* The watcher installed for a plain configuration too.
WatchesItemsAlways(input) == TRUE

\* if (isRef(configInput)) watch(() => configInput.value.items, ...)
WatchesItems(input) == input.isRef

InitCommon ==
    /\ containerRef = Null
    /\ instance = Null
    /\ phase = "setup"
    /\ unmounts = 0
    /\ built = <<>>
    /\ userCalls = <<>>
    /\ destroyCalls = <<>>
    /\ setItemsCalls = <<>>
    /\ subs = <<>>
    /\ thrown = {}
    /\ itemsWatch = [Watcher(configInput.value.items) EXCEPT !.active = WatchesItems(configInput)]
    /\ helpers = <<>>
    /\ itemChanges = 0
    /\ refChanges = 0

Init ==
    /\ variant = "index.ts"
    /\ configInput \in [isRef : BOOLEAN, value : LifecycleConfigs]
    /\ extRef \in {Null, Obj("ext1")}
    /\ InitCommon

InitConfig ==
    /\ variant = "index.ts"
    /\ configInput \in [isRef : BOOLEAN, value : LifecycleConfigs]
    /\ extRef = Null
    /\ InitCommon

\* A reactive configuration whose items are a non-empty collection.
InitItems ==
    /\ variant = "index.ts"
    /\ configInput \in [isRef : {TRUE},
                        value : {[DefaultConfig EXCEPT !.items = it] : it \in NonEmptyItems}]
    /\ extRef = Null
    /\ InitCommon

InitBuild ==
    /\ variant \in SourceVariants
    /\ configInput \in [isRef : {FALSE}, value : ConfigSpace]
    /\ extRef = Null
    /\ InitCommon

(***************************************************************************)
(* The host renders the component: the template ref is filled when the     *)
(* template binds it to an element, and stays null when it does not.       *)
(***************************************************************************)
Render ==
    /\ phase = "setup"
    /\ \E el \in {Null, Div} : containerRef' = el
    /\ phase' = "rendered"
    /\ UNCHANGED <<variant, configInput, instance, unmounts, engineVars, thrown,
                   itemsWatch, helpers, extRef, itemChanges, refChanges>>

(***************************************************************************)
(* onMounted: the mount signal, which Vue delivers once.                   *)
(***************************************************************************)
Mount ==
    /\ phase = "rendered"
    /\ phase' = "mounted"
    /\ IF HasContainer(containerRef)
       THEN /\ built' = Append(built, Build(variant, Unref(configInput), containerRef, Len(built) + 1))
            /\ userCalls' = userCalls \o SectionsCalls(variant, Unref(configInput))
            /\ instance' = BuiltInstance(Len(built) + 1)
            /\ helpers' = TriggerRef(helpers, "instance")
       ELSE UNCHANGED <<built, userCalls, instance, helpers>>
    /\ UNCHANGED <<variant, configInput, containerRef, unmounts, destroyCalls,
                   setItemsCalls, subs, thrown, itemsWatch, extRef, itemChanges,
                   refChanges>>

(***************************************************************************)
(* onMounted when the engine rejects the build: vlist(), the constructor   *)
(* of an extension in use, or build() throws.  The handler has no          *)
(* try/catch: the statements after the throwing call do not run and the    *)
(* error leaves the handler as it is.                                      *)
(***************************************************************************)
\* The error the engine throws from the named call.
EngineError(at) == [t |-> "error", from |-> at]

\* The calls of the engine a build can make.
EngineCalls ==
    {"vlist", "withPage", "withAsync", "withGrid", "withSections", "withSelection",
     "withScale", "withScrollbar", "withSnapshots", "build"}

\* The calls of the engine the build makes with this configuration.
ThrowPoints(v, config) ==
    {"vlist", "build"} \cup {Extensions(v, config)[i].ext : i \in DOMAIN Extensions(v, config)}

\* The calls made after the arguments of withSections were evaluated.
AfterSections(at) ==
    at \in {"withSections", "withSelection", "withScale", "withScrollbar",
            "withSnapshots", "build"}

\* The instance published although build() threw.
PublishedOnThrowEarly(current, n) == BuiltInstance(n)

\* instance.value = builder.build(): the assignment is not reached.
PublishedOnThrow(current, n) == current

MountThrows(at) ==
    /\ phase = "rendered"
    /\ HasContainer(containerRef)
    /\ at \in ThrowPoints(variant, Unref(configInput))
    /\ phase' = "mounted"
    /\ userCalls' = IF AfterSections(at)
                    THEN userCalls \o SectionsCalls(variant, Unref(configInput))
                    ELSE userCalls
    /\ thrown' = thrown \cup {[handler |-> "onMounted", error |-> EngineError(at)]}
    /\ instance' = PublishedOnThrow(instance, Len(built) + 1)
    /\ helpers' = IF instance' # instance THEN TriggerRef(helpers, "instance") ELSE helpers
    /\ UNCHANGED <<variant, configInput, containerRef, unmounts, built, destroyCalls,
                   setItemsCalls, subs, itemsWatch, extRef, itemChanges, refChanges>>

(***************************************************************************)
(* onBeforeUnmount: the unmount signal, after the mount signal.  Vue runs   *)
(* the hooks the component registered, in the order of their registration, *)
(* then stops the component's watchers.  The signal is delivered up to     *)
(* MaxUnmounts times so that a repeated teardown is part of the runs.      *)
(***************************************************************************)
\* The TypeError of a method call on null.
CallOnNull == [t |-> "error", from |-> "TypeError"]

\* instance.value.destroy(): the call without the optional chain.
DestroyOutcomeUnguarded(inst) == IF inst.t \in {"null", "undefined"} THEN "throw" ELSE "call"

\* The published instance left as it is.
ClearedNot(inst) == inst

\* instance.value?.destroy(): what the optional call does with the value.
DestroyOutcome(inst) == IF inst.t \in {"null", "undefined"} THEN "skip" ELSE "call"

\* instance.value = null
Cleared(inst) == Null

\* The hooks of the event helpers: () => { unsub() }
RunUnsubHooks(ss) ==
    [i \in DOMAIN ss |->
        IF ss[i].hooked THEN [ss[i] EXCEPT !.unsubCalls = @ + 1] ELSE ss[i]]

Unmount ==
    /\ phase \in {"mounted", "unmounted"}
    /\ unmounts < MaxUnmounts
    /\ phase' = "unmounted"
    /\ unmounts' = unmounts + 1
    /\ LET outcome == DestroyOutcome(instance) IN
        /\ destroyCalls' = IF outcome = "call" THEN Append(destroyCalls, instance)
                           ELSE destroyCalls
        /\ thrown' = IF outcome = "throw"
                     THEN thrown \cup {[handler |-> "onBeforeUnmount",
                                        error |-> CallOnNull]}
                     ELSE thrown
        /\ instance' = IF outcome = "throw" THEN instance ELSE Cleared(instance)
    /\ subs' = RunUnsubHooks(subs)
    /\ itemsWatch' = Stop(itemsWatch)
    /\ helpers' = [i \in DOMAIN helpers |-> [helpers[i] EXCEPT !.w = Stop(@)]]
    /\ UNCHANGED <<variant, configInput, containerRef, built, userCalls,
                   setItemsCalls, extRef, itemChanges, refChanges>>

(***************************************************************************)
(* The items watcher.                                                      *)
(***************************************************************************)
\* The user replaces the items field of the configuration.
ChangeItems(v) ==
    /\ itemChanges < MaxItemChanges
    /\ v # configInput.value.items
    /\ configInput' = [configInput EXCEPT !.value.items = v]
    /\ itemsWatch' = Trigger(itemsWatch)
    /\ itemChanges' = itemChanges + 1
    /\ UNCHANGED <<variant, containerRef, instance, phase, unmounts, engineVars,
                   thrown, helpers, extRef, refChanges>>

\* The callback without the check of newItems.
ItemsCallbackUnchecked(inst, newItems) ==
    IF Truthy(inst) THEN <<[inst |-> inst, items |-> newItems]>> ELSE <<>>

\* (newItems) => { if (instance.value && newItems) instance.value.setItems(newItems) }
ItemsCallback(inst, newItems) ==
    IF Truthy(inst) /\ Truthy(newItems)
    THEN <<[inst |-> inst, items |-> newItems]>>
    ELSE <<>>

\* The watcher's job: the callback runs when the getter's value changed.
FlushItems ==
    /\ itemsWatch.active
    /\ itemsWatch.pending
    /\ LET newItems == configInput.value.items IN
        /\ setItemsCalls' = IF newItems # itemsWatch.old
                            THEN setItemsCalls \o ItemsCallback(instance, newItems)
                            ELSE setItemsCalls
        /\ itemsWatch' = Ran(itemsWatch, newItems)
    /\ UNCHANGED <<variant, configInput, containerRef, instance, phase, unmounts,
                   built, userCalls, destroyCalls, subs, thrown, helpers, extRef,
                   itemChanges, refChanges>>

\* The values the user gives to the fields other than items.
FieldUpdates ==
    [item |-> Obj("item2"), layout |-> Str("grid"), grid |-> Obj("grid"),
     groups |-> MkObj([getGroupForIndex |-> Fn("getGroupForIndex"),
                       headerTemplate |-> Fn("headerTemplate"),
                       headerHeight |-> Fn("headerHeight")]),
     selection |-> MkObj([mode |-> Str("single")]),
     scrollbar |-> Str("none"), adapter |-> Obj("adapter")]

\* The fields the user gave another value.
FieldsChanged(config) == {f \in DOMAIN FieldUpdates : config[f] = FieldUpdates[f]}

\* The user changes a field other than items.  With a reactive cell the
\* items watcher depends on the cell and on the items property: writing
\* the field in place triggers nothing, replacing the whole configuration
\* (with the same items) queues the watcher's job.
ChangeField(f, whole) ==
    /\ Cardinality(FieldsChanged(configInput.value)) < MaxFieldChanges
    /\ configInput.value[f] # FieldUpdates[f]
    /\ configInput' = [configInput EXCEPT !.value[f] = FieldUpdates[f]]
    /\ itemsWatch' = IF whole THEN Trigger(itemsWatch) ELSE itemsWatch
    /\ UNCHANGED <<variant, containerRef, instance, phase, unmounts, engineVars,
                   thrown, helpers, extRef, itemChanges, refChanges>>

(***************************************************************************)
(* useVListEvent(instanceRef, event, handler).                             *)
(***************************************************************************)
\* onBeforeUnmount(() => { unsub() }) inside the watch callback.  Vue adds
\* a lifecycle hook to the component that is current when the hook is
\* registered: setup has one, a watcher job run by the scheduler has none
\* and the registration is dropped.
HookAttached(inSetup) == inSetup

\* The callback run at the call only, as a watch that never fires again.
SubscribeAtCallOnly(h, event, inst, inSetup) ==
    IF ~Truthy(inst) \/ ~inSetup THEN <<>>
    ELSE <<[helper |-> h, inst |-> inst, event |-> event,
            hooked |-> HookAttached(inSetup), unsubCalls |-> 0]>>

\* The callback without the check of the instance.
SubscribeUnchecked(h, event, inst, inSetup) ==
    <<[helper |-> h, inst |-> inst, event |-> event,
       hooked |-> HookAttached(inSetup), unsubCalls |-> 0]>>

\* (instance) => { if (!instance) return; const unsub = instance.on(event,
\* wrappedHandler); onBeforeUnmount(() => { unsub() }) }
Subscribe(h, event, inst, inSetup) ==
    IF ~Truthy(inst) THEN <<>>
    ELSE <<[helper |-> h, inst |-> inst, event |-> event,
            hooked |-> HookAttached(inSetup), unsubCalls |-> 0]>>

\* The call, during setup: watch(..., { immediate: true }) runs the
\* callback at once with the reference's value.
UseVListEvent(ref, event) ==
    /\ phase = "setup"
    /\ event = EventOf(Len(helpers) + 1)
    /\ Len(helpers) < MaxEventCalls
    /\ helpers' = Append(helpers, [ref |-> ref, event |-> event, w |-> Watcher(RefValue(ref))])
    /\ subs' = subs \o Subscribe(Len(helpers) + 1, event, RefValue(ref), TRUE)
    /\ UNCHANGED <<variant, configInput, containerRef, instance, phase, unmounts,
                   built, userCalls, destroyCalls, setItemsCalls, thrown,
                   itemsWatch, extRef, itemChanges, refChanges>>

\* The watcher's job, run by the scheduler after the reference changed.
FlushEvent(h) ==
    /\ h \in DOMAIN helpers
    /\ helpers[h].w.active
    /\ helpers[h].w.pending
    /\ LET new == RefValue(helpers[h].ref) IN
        /\ subs' = IF new # helpers[h].w.old
                   THEN subs \o Subscribe(h, helpers[h].event, new, FALSE)
                   ELSE subs
        /\ helpers' = [helpers EXCEPT ![h].w = Ran(@, new)]
    /\ UNCHANGED <<variant, configInput, containerRef, instance, phase, unmounts,
                   built, userCalls, destroyCalls, setItemsCalls, thrown,
                   itemsWatch, extRef, itemChanges, refChanges>>

\* The owner of the other reference changes its value.
SetExtRef(v) ==
    /\ refChanges < MaxRefChanges
    /\ v # extRef
    /\ extRef' = v
    /\ helpers' = TriggerRef(helpers, "extRef")
    /\ refChanges' = refChanges + 1
    /\ UNCHANGED <<variant, configInput, containerRef, instance, phase, unmounts,
                   engineVars, thrown, itemsWatch, itemChanges>>

Range(seq) == {seq[i] : i \in DOMAIN seq}

(***************************************************************************)
(* Specifications.                                                         *)
(***************************************************************************)
Next ==
    \/ Render
    \/ Mount
    \/ Unmount
    \/ \E v \in ItemsValues : ChangeItems(v)
    \/ FlushItems
    \/ \E ref \in Refs, h \in 1..MaxEventCalls : UseVListEvent(ref, EventOf(h))
    \/ \E h \in 1..MaxEventCalls : FlushEvent(h)
    \/ \E v \in {Null} \cup ExtInstances : SetExtRef(v)

Spec == Init /\ [][Next]_vars

\* The build alone, over every configuration.
NextBuild == Render \/ Mount

SpecBuild == InitBuild /\ [][NextBuild]_vars

\* The lifecycle with changes of every field of the configuration.
NextConfig ==
    \/ Render
    \/ Mount
    \/ Unmount
    \/ \E v \in ItemsValues : ChangeItems(v)
    \/ FlushItems
    \/ \E f \in DOMAIN FieldUpdates, whole \in BOOLEAN : ChangeField(f, whole)

SpecConfig == InitConfig /\ [][NextConfig]_vars

\* The lifecycle of a reactive configuration whose items stay a non-empty
\* collection.
NextItems ==
    \/ Render
    \/ Mount
    \/ Unmount
    \/ \E v \in NonEmptyItems : ChangeItems(v)
    \/ FlushItems

SpecItems == InitItems /\ [][NextItems]_vars

\* The lifecycle with an engine that may reject the build.
NextFail ==
    \/ Render
    \/ Mount
    \/ \E at \in EngineCalls : MountThrows(at)
    \/ Unmount
    \/ \E v \in ItemsValues : ChangeItems(v)
    \/ FlushItems
    \/ \E h \in 1..MaxEventCalls : UseVListEvent("instance", EventOf(h))
    \/ \E h \in 1..MaxEventCalls : FlushEvent(h)

SpecFail == InitConfig /\ [][NextFail]_vars

(***************************************************************************)
(* Properties.                                                             *)
(***************************************************************************)

Count(seq, x) == Cardinality({i \in DOMAIN seq : seq[i] = x})

\* The instances built and not destroyed.
Live == {i \in DOMAIN built : built[i].inst \notin Range(destroyCalls)}

\* C1: with the container populated at the mount signal, after mount
\* exactly one instance has been built and it is the published one; after
\* the unmount signal the published instance is empty; never is more than
\* one built instance not destroyed.
C1_OneInstance ==
    /\ (phase = "mounted" /\ containerRef # Null) =>
            (Len(built) = 1 /\ instance = built[1].inst /\ Live = {1})
    /\ phase = "unmounted" => (instance = Null /\ Live = {})
    /\ Cardinality(Live) <= 1

C1_Witness ==
    /\ phase = "unmounted"
    /\ Len(built) = 1
    /\ destroyCalls = <<built[1].inst>>
    /\ instance = Null

\* C2: with the container empty at the mount signal nothing is built: no
\* instance, no extension, no user function called, nothing thrown, and
\* the published instance stays empty; no build is ever seeded with an
\* empty container.
C2_NoBuildWithoutContainer ==
    /\ (phase \in {"mounted", "unmounted"} /\ containerRef = Null) =>
            (built = <<>> /\ userCalls = <<>> /\ instance = Null /\ thrown = {})
    /\ \A i \in DOMAIN built : built[i].seed.container \notin {Null, Undefined}

C2_Witness ==
    /\ phase = "mounted"
    /\ containerRef = Null
    /\ built = <<>>
    /\ instance = Null

\* C3: no unmount signal throws, the published instance is empty after
\* each of them, and destroy is invoked exactly once on a built instance,
\* by the first unmount, and on nothing else.
C3_TeardownIdempotent ==
    /\ thrown = {}
    /\ unmounts >= 1 => instance = Null
    /\ unmounts >= 1 => \A i \in DOMAIN built : Count(destroyCalls, built[i].inst) = 1
    /\ unmounts = 0 => destroyCalls = <<>>
    /\ Len(destroyCalls) <= Len(built)

C3_Witness ==
    /\ unmounts = 2
    /\ Len(built) = 1
    /\ destroyCalls = <<built[1].inst>>

\* A step in which the items watcher's job ran.
ItemsReaction ==
    /\ itemsWatch.active /\ itemsWatch.pending
    /\ itemsWatch'.active /\ ~itemsWatch'.pending

\* The job found the items field changed since it last looked.
ItemsChanged == configInput.value.items # itemsWatch.old

NonEmptyCollection(x) == x.t = "array" /\ Len(x.v) > 0

\* C4 as claimed: with a live instance, a reaction to a replaced items
\* field calls setItems once with the new collection when it is non-empty,
\* and makes no call when it is empty or undefined.
C4_AsClaimed ==
    [][(ItemsReaction /\ ItemsChanged /\ instance # Null) =>
           setItemsCalls' =
               IF NonEmptyCollection(configInput.value.items)
               THEN Append(setItemsCalls, [inst |-> instance, items |-> configInput.value.items])
               ELSE setItemsCalls]_vars

\* C4, amended: a reaction to a replaced items field, with a live
\* instance, calls setItems exactly once with the cell's current items
\* when they are defined, the empty collection included; it makes no call
\* when they are undefined or no instance is live, and no other step
\* calls setItems.
C4_ItemSync ==
    [][IF ItemsReaction /\ ItemsChanged /\ instance # Null
          /\ configInput.value.items # Undefined
       THEN setItemsCalls' =
               Append(setItemsCalls, [inst |-> instance, items |-> configInput.value.items])
       ELSE UNCHANGED setItemsCalls]_vars

C4_Witness ==
    /\ Len(setItemsCalls) = 2
    /\ setItemsCalls[1] = [inst |-> instance, items |-> Arr(<<>>)]
    /\ setItemsCalls[2] = [inst |-> instance, items |-> Arr(<<"a">>)]
    /\ configInput.value.items = Arr(<<"a">>)

\* C5: once a helper's watcher has seen the current value of its
\* reference and that value is an instance, the handler is registered on
\* that instance under the helper's event name: at the call itself when
\* the reference is already filled, by the watcher's reaction when it is
\* filled later.
C5_HandlerWired ==
    \A h \in DOMAIN helpers :
        (/\ helpers[h].w.active
         /\ ~helpers[h].w.pending
         /\ RefValue(helpers[h].ref) # Null) =>
            \E i \in DOMAIN subs :
                /\ subs[i].helper = h
                /\ subs[i].inst = RefValue(helpers[h].ref)
                /\ subs[i].event = helpers[h].event

C5_Witness ==
    /\ phase = "mounted"
    /\ Len(helpers) = 1
    /\ helpers[1].ref = "instance"
    /\ ~helpers[1].w.pending
    /\ Len(subs) = 1
    /\ subs[1].inst = BuiltInstance(1)
    /\ subs[1].event = "scroll"

\* C6: after the first unmount signal every registration a helper made,
\* during setup or in a later reaction, has had its unsubscribe handle
\* invoked exactly once.
C6_ReleasedAtUnmount ==
    unmounts = 1 => \A i \in DOMAIN subs : subs[i].unsubCalls = 1

(***************************************************************************)
(* Properties of the build, over every configuration (SpecBuild).          *)
(***************************************************************************)
ExtensionOrder ==
    <<"withPage", "withAsync", "withGrid", "withSections", "withSelection",
      "withScale", "withScrollbar", "withSnapshots">>

Rank(name) == CHOOSE k \in DOMAIN ExtensionOrder : ExtensionOrder[k] = name

\* The extensions of a build made by the named constructor.
ExtsOf(exts, name) == SelectSeq(exts, LAMBDA e : e.ext = name)

NoneMode == MkObj([mode |-> Str("none")])

\* C7: the extensions of a build follow the fixed order, none twice;
\* selection, scale and snapshot are always among them; a configuration
\* without scroll, adapter, grid, groups, selection and scrollbar gets
\* exactly selection(none), scale, scrollbar({}), snapshot.
C7_FixedOrder ==
    \A i \in DOMAIN built :
        LET exts == built[i].exts
            cfg == built[i].seed
        IN  /\ \A j \in DOMAIN exts : exts[j].ext \in Range(ExtensionOrder)
            /\ \A j, k \in DOMAIN exts :
                    j < k => Rank(exts[j].ext) < Rank(exts[k].ext)
            /\ {"withSelection", "withScale", "withSnapshots"}
                    \subseteq {exts[j].ext : j \in DOMAIN exts}
            /\ (/\ cfg.scroll = Undefined /\ cfg.adapter = Undefined
                /\ cfg.grid = Undefined /\ cfg.groups = Undefined
                /\ cfg.selection = Undefined /\ cfg.scrollbar = Undefined) =>
                    exts = <<Ext("withSelection", <<NoneMode>>),
                             Ext("withScale", <<>>),
                             Ext("withScrollbar", <<EmptyObject>>),
                             Ext("withSnapshots", <<>>)>>

C7_Witness ==
    /\ phase = "mounted"
    /\ Len(built) = 1
    /\ [j \in DOMAIN built[1].exts |-> built[1].exts[j].ext] = ExtensionOrder

\* The scrollbar setting as the claim resolves it: scroll.scrollbar if it
\* is set, otherwise the top-level scrollbar.
ResolvedScrollbar(cfg) ==
    IF cfg.scroll # Undefined /\ "scrollbar" \in DOMAIN cfg.scroll.v
    THEN cfg.scroll.v.scrollbar
    ELSE cfg.scrollbar

\* C8: the scrollbar extension is absent exactly when the resolved
\* setting is "none"; otherwise it is attached once, with the resolved
\* value when that is an object and with {} when it is not.
C8_Scrollbar ==
    \A i \in DOMAIN built :
        LET r == ResolvedScrollbar(built[i].seed)
            sb == ExtsOf(built[i].exts, "withScrollbar")
        IN  IF r = Str("none")
            THEN sb = <<>>
            ELSE sb = <<Ext("withScrollbar", <<IF r.t = "object" THEN r ELSE EmptyObject>>)>>

C8_Witness ==
    /\ Len(built) = 1
    /\ built[1].seed.scroll # Undefined
    /\ Field(built[1].seed.scroll, "scrollbar") = Str("none")
    /\ built[1].seed.scrollbar = Obj("scrollbar")
    /\ ExtsOf(built[1].exts, "withScrollbar") = <<>>

\* C9: the selection extension is attached exactly once; it receives the
\* configured selection object when that has a mode other than "none",
\* and { mode: "none" } alone otherwise.
C9_Selection ==
    \A i \in DOMAIN built :
        LET sel == built[i].seed.selection
            active == /\ sel # Undefined
                      /\ "mode" \in DOMAIN sel.v
                      /\ sel.v.mode # Str("none")
        IN  ExtsOf(built[i].exts, "withSelection") =
                <<Ext("withSelection", <<IF active THEN sel ELSE NoneMode>>)>>

C9_Witness ==
    /\ Len(built) = 1
    /\ built[1].seed.selection = MkObj([mode |-> Str("none"), initial |-> Obj("initial")])
    /\ ExtsOf(built[1].exts, "withSelection") = <<Ext("withSelection", <<NoneMode>>)>>

\* C10: the async extension is attached, once, exactly when an adapter is
\* configured; its options carry that adapter, and a loading entry exactly
\* when the configuration has one, equal to it.
C10_Async ==
    \A i \in DOMAIN built :
        LET cfg == built[i].seed
            as == ExtsOf(built[i].exts, "withAsync")
        IN  IF cfg.adapter = Undefined
            THEN as = <<>>
            ELSE /\ Len(as) = 1
                 /\ Len(as[1].args) = 1
                 /\ DOMAIN as[1].args[1].v =
                        {"adapter"} \cup (IF cfg.loading = Undefined THEN {} ELSE {"loading"})
                 /\ as[1].args[1].v.adapter = cfg.adapter
                 /\ cfg.loading # Undefined => as[1].args[1].v.loading = cfg.loading

C10_Witness ==
    /\ Len(built) = 1
    /\ built[1].seed.adapter = Obj("adapter")
    /\ built[1].seed.loading = Undefined
    /\ ExtsOf(built[1].exts, "withAsync") =
            <<Ext("withAsync", <<MkObj([adapter |-> Obj("adapter")])>>)>>

\* C11: the page-scroll extension is attached, once and without
\* arguments, exactly when scroll.element is the window; no scroll field,
\* no element, or another element never gets it.
C11_Page ==
    \A i \in DOMAIN built :
        LET scroll == built[i].seed.scroll
            onWindow == /\ scroll # Undefined
                        /\ "element" \in DOMAIN scroll.v
                        /\ scroll.v.element = Window
        IN  ExtsOf(built[i].exts, "withPage") =
                IF onWindow THEN <<Ext("withPage", <<>>)>> ELSE <<>>

C11_Witness ==
    /\ Len(built) = 1
    /\ built[1].seed.scroll = MkObj([element |-> Div])
    /\ ExtsOf(built[1].exts, "withPage") = <<>>

\* The options the claim expects the section extension to get.
ExpectedSections(groups) ==
    LET hh == groups.v.headerHeight IN
    MkObj([getGroupForIndex |-> groups.v.getGroupForIndex,
           headerTemplate |-> groups.v.headerTemplate,
           sticky |-> IF "sticky" \in DOMAIN groups.v THEN groups.v.sticky ELSE Undefined,
           headerHeight |-> IF hh.t = "function"
                            THEN Result(hh, <<Str(""), Num("0")>>)
                            ELSE hh])

\* C12: with a grouping configuration the section extension is attached
\* once, with the group function, the header template, the sticky flag
\* only if given, and the header height resolved: a function is called
\* exactly once, with ("", 0), and its result is forwarded, any other
\* value is forwarded as it is.  Without a grouping configuration the
\* extension is absent and no function is called.
C12_Sections ==
    \A i \in DOMAIN built :
        LET groups == built[i].seed.groups
            se == ExtsOf(built[i].exts, "withSections")
        IN  IF groups = Undefined
            THEN se = <<>> /\ userCalls = <<>>
            ELSE /\ se = <<Ext("withSections", <<ExpectedSections(groups)>>)>>
                 /\ userCalls =
                        IF groups.v.headerHeight.t = "function"
                        THEN <<Call(groups.v.headerHeight, <<Str(""), Num("0")>>)>>
                        ELSE <<>>

\* C12 on the source it describes, src/unnamed/part_002.
C12_SectionsPart002 == variant = "part_002" => C12_Sections

\* C13: the grid extension is attached, once, exactly when layout is
\* "grid" and grid parameters are given, and it gets those parameters.
C13_Grid ==
    \A i \in DOMAIN built :
        LET cfg == built[i].seed IN
        ExtsOf(built[i].exts, "withGrid") =
            IF cfg.layout = Str("grid") /\ cfg.grid # Undefined
            THEN <<Ext("withGrid", <<cfg.grid>>)>>
            ELSE <<>>

C13_Witness ==
    /\ Len(built) = 1
    /\ built[1].seed.layout = Str("list")
    /\ built[1].seed.grid = Obj("grid")
    /\ ExtsOf(built[1].exts, "withGrid") = <<>>

\* The subscriptions a useVListEvent call made and never released.
Unreleased(h) == {i \in DOMAIN subs : subs[i].helper = h /\ subs[i].unsubCalls = 0}

\* C14: a subscription made by useVListEvent is released when the
\* referenced instance changes from a non-empty value to another instance:
\* once the reaction to the new instance has run, the unsubscribe of every
\* subscription on a former value has been invoked, and so a call never
\* holds more than one unreleased subscription.
C14_ReleasedOnChange ==
    \A h \in DOMAIN helpers :
        /\ Cardinality(Unreleased(h)) <= 1
        /\ (helpers[h].w.active /\ ~helpers[h].w.pending
                /\ Truthy(RefValue(helpers[h].ref))) =>
                \A i \in DOMAIN subs :
                    (subs[i].helper = h /\ subs[i].inst # RefValue(helpers[h].ref))
                        => subs[i].unsubCalls >= 1

\* C15: no destroyed instance is ever used.  The published instance is
\* never one whose destroy() was invoked, and whatever the order of mount,
\* unmount, item changes, reference changes and the watchers' jobs, every
\* setItems() and on() call is made on an instance whose destroy() has
\* not been invoked.
C15_NoUseAfterDestroy ==
    [][ /\ instance' \notin Range(destroyCalls')
        /\ \A i \in DOMAIN setItemsCalls' :
                i > Len(setItemsCalls) =>
                    setItemsCalls'[i].inst \notin Range(destroyCalls')
        /\ \A i \in DOMAIN subs' :
                i > Len(subs) => subs'[i].inst \notin Range(destroyCalls') ]_vars

C15_Witness ==
    /\ phase = "unmounted"
    /\ destroyCalls = <<BuiltInstance(1)>>
    /\ instance = Null
    /\ setItemsCalls # <<>>
    /\ \E i \in DOMAIN subs : subs[i].inst = BuiltInstance(1)
    /\ configInput.value.items # itemsWatch.old

\* A step that changes the configuration and leaves its items alone.
FieldChanged ==
    /\ configInput' # configInput
    /\ configInput'.value.items = configInput.value.items

\* C16: after the build the adapter calls nothing of the engine but
\* setItems() and destroy().  With a plain configuration setItems() is
\* never called.  A change of a field other than items (item, layout,
\* grid, groups, selection, scrollbar, adapter) calls nothing, builds
\* nothing and leaves the extensions and the published instance as they
\* are, and so does the watcher's job that such a change may queue.
C16_OnlyItems ==
    [][ /\ ~configInput.isRef => setItemsCalls' = <<>>
        /\ built # <<>> => (built' = built /\ userCalls' = userCalls)
        /\ FieldChanged => UNCHANGED <<engineVars, instance>>
        /\ (ItemsReaction /\ ~ItemsChanged) =>
                UNCHANGED <<built, userCalls, destroyCalls, setItemsCalls, instance>>
      ]_vars

C16_Witness ==
    /\ configInput.isRef
    /\ instance = BuiltInstance(1)
    /\ Len(built) = 1
    /\ built[1].seed.layout = Undefined
    /\ configInput.value.layout = Str("grid")
    /\ itemsWatch.active /\ ~itemsWatch.pending
    /\ setItemsCalls = <<>>
    /\ itemChanges = 0

\* C17: when vlist(), the constructor of an extension or build() throws
\* during the build on mount, the engine's error leaves the mount handler
\* as it was thrown and no instance is published: the published instance
\* stays empty, no reaction reaches an engine instance, and a later
\* unmount makes no destroy() call.
C17_FailedBuild ==
    /\ \A e \in thrown :
            e.handler = "onMounted" =>
                /\ e.error \in {EngineError(at) : at \in EngineCalls}
                /\ instance = Null
                /\ built = <<>> /\ destroyCalls = <<>>
                /\ setItemsCalls = <<>> /\ subs = <<>>
    /\ (phase \in {"mounted", "unmounted"} /\ HasContainer(containerRef) /\ built = <<>>)
            => \E e \in thrown : e.handler = "onMounted"

C17_Witness ==
    /\ phase = "unmounted"
    /\ thrown = {[handler |-> "onMounted", error |-> EngineError("build")]}
    /\ destroyCalls = <<>>
    /\ helpers # <<>>
    /\ itemChanges > 0
    /\ configInput.isRef /\ Truthy(configInput.value.items)

\* The collection the engine got last: by setItems(), or else by the
\* configuration it was built from.
LastHanded ==
    IF setItemsCalls # <<>>
    THEN setItemsCalls[Len(setItemsCalls)].items
    ELSE built[Len(built)].seed.items

\* C18: with a reactive configuration whose items are always a non-empty
\* collection, whenever an instance is published and the items watcher
\* has no job pending, the collection the engine got last is the cell's
\* current items.
C18_ItemsInSync ==
    (instance # Null /\ ~itemsWatch.pending) => LastHanded = configInput.value.items

\* The second half of C18: the instance is built from the items the cell
\* holds at mount, so items replaced between the useVList call and the
\* mount are the ones it is built with.
C18_BuiltFromCurrent ==
    [][ (built = <<>> /\ built' # <<>>) =>
            built'[1].seed.items = configInput.value.items ]_vars

\* The on() calls a useVListEvent call made.
OnCalls(h) == {i \in DOMAIN subs : subs[i].helper = h}

\* The useVListEvent calls given the reference useVList returned.
OwnHelpers == {h \in DOMAIN helpers : helpers[h].ref = "instance"}

\* C19 as stated: given the reference useVList returned, a useVListEvent
\* call has invoked on() exactly once when the component's life is over if
\* the mount built an instance, and never if the mount was skipped.
C19_AsClaimed ==
    phase = "unmounted" =>
        \A h \in OwnHelpers :
            Cardinality(OnCalls(h)) = IF built # <<>> THEN 1 ELSE 0

\* C19, amended: given the reference useVList returned, a useVListEvent
\* call invokes on() at most once, on the built instance only: never
\* while no instance was built, exactly once as soon as its watcher has
\* run the reaction to the mount.  The unmount stops the watcher, so the
\* reference becoming empty registers nothing, and a component unmounted
\* before that reaction ran leaves the call with no on() at all.
C19_AtMostOnce ==
    \A h \in OwnHelpers :
        /\ Cardinality(OnCalls(h)) <= 1
        /\ \A i \in OnCalls(h) : subs[i].inst = BuiltInstance(1)
        /\ built = <<>> => OnCalls(h) = {}
        /\ (built # <<>> /\ helpers[h].w.active /\ ~helpers[h].w.pending)
                => Cardinality(OnCalls(h)) = 1
        /\ phase = "unmounted" => ~helpers[h].w.active

C19_Witness ==
    /\ phase = "unmounted"
    /\ instance = Null
    /\ built # <<>>
    /\ OwnHelpers # {}
    /\ \A h \in OwnHelpers : Cardinality(OnCalls(h)) = 1

====
